---- MODULE Spec2Model ----
(***************************************************************************)
(* Okamoto-Uchiyama cryptosystem (okamoto-uchiyama-rs).                    *)
(*                                                                         *)
(* The model follows the Rust sources: key generation (OkamotoUchiyama::   *)
(* init), the key constructors, encrypt / decrypt, the two homomorphic     *)
(* operations in both of their implementations (the BigUint one of lib.rs  *)
(* and the Ciphertext one of crypto/public_key.rs) and the PEM codec.      *)
(* Big integers are TLA+ integers; the key sizes are scaled down so that   *)
(* the primes have a few bits instead of a few hundred.                    *)
(***************************************************************************)
EXTENDS Integers, Sequences, FiniteSets, TLC

VARIABLES
    pc,           \* position of the driving program (a test or a caller)
    ou,           \* the OkamotoUchiyama struct under construction / returned by init
    public_key,   \* a PublicKey {n, g, h}
    private_key,  \* a PrivateKey {public_key, gd, p, q, p_squared}
    ciphers,      \* the ciphertexts the program holds, each with the plaintext it encrypts
    last,         \* the last homomorphic / decrypt call: its arguments and its result
    pem_obj,      \* the key or ciphertext handed to to_pem
    pem_str,      \* the PEM text held by the program
    pem_res,      \* the result of the last from_pem
    pem_edit      \* what the caller did to the PEM text before from_pem

vars == <<pc, ou, public_key, private_key, ciphers, last, pem_obj, pem_str, pem_res,
          pem_edit>>

crypto_vars == <<pc, ou, public_key, private_key, ciphers, last>>
pem_vars == <<pem_obj, pem_str, pem_res, pem_edit>>

----------------------------------------------------------------------------
(* Bounds of the model.                                                    *)

\* Largest number of ciphertexts the program holds at once.
MaxCiphers == 2

\* Largest prime a caller hands to PublicKey::new / PrivateKey::new.
MaxCallerPrime == 5

\* Largest number of homomorphic steps in one sequence of operations.
MaxSteps == 2

\* Largest number of ciphertexts in the list of one call of
\* homomorphic_encrypt_multiple.
MaxArguments == 3

\* The key length init is called with, scaled down from 512..4096 bits:
\* p has length / 3 = 2 bits and q has length / 2 = 3 bits.
KeyLengths == {6}

----------------------------------------------------------------------------
(* Big-integer layer (num-bigint-dig, num-primes).                         *)

RECURSIVE ModPow(_, _, _)
\* BigUint::modpow(exp, modulus): base^exp mod modulus, by square and multiply.
ModPow(base, exp, modulus) ==
    IF exp = 0 THEN 1 % modulus
    ELSE IF exp % 2 = 0
         THEN LET half == ModPow(base, exp \div 2, modulus)
              IN  (half * half) % modulus
         ELSE ((base % modulus) * ModPow(base, exp - 1, modulus)) % modulus

RECURSIVE Gcd(_, _)
Gcd(a, b) == IF b = 0 THEN a ELSE Gcd(b, a % b)

\* mod_inverse(g, n): Some(x) with g*x = 1 (mod n) and 0 <= x < n when
\* gcd(g, n) = 1, None otherwise.
ModInverse(g, n) ==
    IF Gcd(g, n) = 1 /\ n > 1
    THEN [some |-> TRUE, x |-> CHOOSE x \in 0..(n - 1) : (g * x) % n = 1]
    ELSE [some |-> FALSE, x |-> 0]

IsPrime(x) == x >= 2 /\ \A d \in 2..(x - 1) : x % d # 0

RECURSIVE Pow2(_)
Pow2(k) == IF k = 0 THEN 1 ELSE 2 * Pow2(k - 1)

\* Generator::new_prime(bits): a prime of exactly `bits` bits (the candidates
\* have their top and their lowest bit set, so the prime is odd).
NewPrime(bits) ==
    IF bits = 0 THEN {}
    ELSE {x \in Pow2(bits - 1)..(Pow2(bits) - 1) : x % 2 = 1 /\ IsPrime(x)}

\* rng.gen_biguint_range(low, high): uniform in [low, high).
GenBigUintRange(low, high) == low..(high - 1)

----------------------------------------------------------------------------
(* Values.                                                                 *)

Ok(v) == [tag |-> "Ok", value |-> v]
CipherTooLarge == [tag |-> "CipherTooLarge", value |-> 0]
\* A Rust panic: unwrap() of None, or a BigUint subtraction below zero.
Panic == [tag |-> "Panic", value |-> 0]

\* BigUint::default() is zero; so are the derived Default keys.
DefaultPublicKey == [n |-> 0, g |-> 0, h |-> 0]
DefaultPrivateKey ==
    [public_key |-> DefaultPublicKey, gd |-> 0, p |-> 0, q |-> 0, p_squared |-> 0]
DefaultOU ==
    [p |-> 0, p_squared |-> 0, q |-> 0, n |-> 0, g |-> 0, gpminuse1 |-> 0,
     h |-> 0, length |-> 0]

NoCall ==
    [op |-> "none", impl |-> "none", via |-> "none", args |-> <<>>,
     plain |-> <<>>, srcs |-> <<>>, res |-> Ok(0)]

\* The values of OkamotoUchiyamaError (okamoto-uchiyama-rs/src/error.rs); the
\* generic one carries two strings.
Errors ==
    {[tag |-> "MessageTooLarge"], [tag |-> "CipherTooLarge"],
     [tag |-> "PemDecodingError"]}
    \cup {[tag |-> "OkamotoUchiyamaError", stdout |-> out, stderr |-> err] :
            out \in {"", "out"}, err \in {"", "err"}}

\* The Display text that thiserror derives from the #[error(..)] attributes.
Display(err) ==
    IF err.tag = "MessageTooLarge" THEN "Message is larger than public key size"
    ELSE IF err.tag = "CipherTooLarge" THEN "Message is larger than public key size"
    ELSE IF err.tag = "PemDecodingError" THEN "Error when decoding the PEM encoded key"
    ELSE "Okamoto-Uchiyama failed with the following stdout: " \o err.stdout
         \o " stderr: " \o err.stderr

----------------------------------------------------------------------------
(* Keys.                                                                   *)

\* PublicKey::new(n, g, h): a pure data constructor, nothing is verified.
PublicKey_new(n, g, h) == [n |-> n, g |-> g, h |-> h]

\* PrivateKey::new(public_key, p, q): p_squared and gd are computed.
PrivateKey_new(pk, p, q) ==
    LET p_squared == p * p
        gd == ModPow(pk.g, p - 1, p_squared) % p_squared
    IN  [public_key |-> pk, gd |-> gd, p |-> p, q |-> q, p_squared |-> p_squared]

\* The acceptance test of init's generator loop: `if gpminuse1 != 0 { break; }`.
GeneratorAccepted(gpminuse1) == gpminuse1 # 0

\* OkamotoUchiyama::generate_public_key(&self)
generate_public_key(self) == [n |-> self.n, g |-> self.g, h |-> self.h]

\* generate_private_key with the two primes exchanged.
generate_private_key_swapped(self) ==
    [public_key |-> generate_public_key(self), gd |-> self.gpminuse1,
     p |-> self.q, q |-> self.p, p_squared |-> self.p_squared]

\* OkamotoUchiyama::generate_private_key(&self)
generate_private_key(self) ==
    [public_key |-> generate_public_key(self), gd |-> self.gpminuse1,
     p |-> self.p, q |-> self.q, p_squared |-> self.p_squared]

----------------------------------------------------------------------------
(* Encryption and decryption.                                              *)

\* OkamotoUchiyama::encrypt(message, public_key), r being the random integer
\* it draws: c = (g^m mod n * h^r mod n) mod n.  No check of the message.
encrypt(message, pk, r) ==
    (ModPow(pk.g, message, pk.n) * ModPow(pk.h, r, pk.n)) % pk.n

\* The values encrypt can draw r from: gen_biguint_range(1, n - 1).
EncryptRandom(pk) == GenBigUintRange(1, pk.n - 1)

\* decrypt without the final reduction modulo p.
decrypt_unreduced(ciphertext, sk) ==
    LET a == ModPow(ciphertext, sk.p - 1, sk.p_squared)
        l1 == (a - 1) \div sk.p
        l2 == (sk.gd - 1) \div sk.p
        binverse == ModInverse(l2, sk.p)
    IN  IF a = 0 \/ sk.gd = 0 \/ ~binverse.some THEN Panic
        ELSE Ok(l1 * binverse.x)

\* decrypt with L1 multiplied by L2 itself instead of its inverse modulo p.
decrypt_without_inverse(ciphertext, sk) ==
    LET a == ModPow(ciphertext, sk.p - 1, sk.p_squared)
        l1 == (a - 1) \div sk.p
        l2 == (sk.gd - 1) \div sk.p
    IN  IF a = 0 \/ sk.gd = 0 \/ ~ModInverse(l2, sk.p).some THEN Panic
        ELSE Ok((l1 * l2) % sk.p)

\* OkamotoUchiyama::decrypt(ciphertext, private_key).  The BigUint
\* subtractions panic below zero and unwrap() panics when mod_inverse
\* returns None; the function has no error value to return.
decrypt(ciphertext, sk) ==
    LET pminus1 == sk.p - 1
        a == ModPow(ciphertext, pminus1, sk.p_squared)
        l1 == (a - 1) \div sk.p
        l2 == (sk.gd - 1) \div sk.p
        binverse == ModInverse(l2, sk.p)
    IN  IF a = 0 THEN Panic
        ELSE IF sk.gd = 0 THEN Panic
        ELSE IF ~binverse.some THEN Panic
        ELSE Ok((l1 * binverse.x) % sk.p)

----------------------------------------------------------------------------
(* Homomorphic operations.                                                 *)

RECURSIVE Product(_)
\* let mut c = BigUint::one(); for cipher in ciphers { c = &c * cipher; }
Product(cs) == IF cs = <<>> THEN 1 ELSE Head(cs) * Product(Tail(cs))

\* homomorphic_encrypt_two that adds the two ciphertexts.
homomorphic_encrypt_two_sum(pk, c1, c2) ==
    IF c1 = pk.n \/ c2 = pk.n THEN CipherTooLarge ELSE Ok((c1 + c2) % pk.n)

\* PublicKey::homomorphic_encrypt_two of crypto/public_key.rs (Ciphertext).
homomorphic_encrypt_two(pk, c1, c2) ==
    IF c1 = pk.n \/ c2 = pk.n THEN CipherTooLarge ELSE Ok((c1 * c2) % pk.n)

\* PublicKey::homomorphic_encrypt_two of lib.rs (BigUint).
lib_homomorphic_encrypt_two(pk, c1, c2) ==
    IF c1 = pk.n \/ c2 = pk.n THEN CipherTooLarge ELSE Ok((c1 * c2) % pk.n)

\* homomorphic_encrypt_multiple with the guard widened to cipher >= n.
homomorphic_encrypt_multiple_widened(pk, cs) ==
    IF \E i \in 1..Len(cs) : cs[i] >= pk.n THEN CipherTooLarge
    ELSE Ok(Product(cs) % pk.n)

\* homomorphic_encrypt_multiple with the guard on the first ciphertext only.
homomorphic_encrypt_multiple_first_guard(pk, cs) ==
    IF cs # <<>> /\ cs[1] = pk.n THEN CipherTooLarge ELSE Ok(Product(cs) % pk.n)

\* PublicKey::homomorphic_encrypt_multiple of crypto/public_key.rs: the
\* product is reduced modulo n.
homomorphic_encrypt_multiple(pk, cs) ==
    IF \E i \in 1..Len(cs) : cs[i] = pk.n THEN CipherTooLarge ELSE Ok(Product(cs) % pk.n)

\* PublicKey::homomorphic_encrypt_multiple of lib.rs: Ok(c), the product as
\* it is, without a reduction.
lib_homomorphic_encrypt_multiple(pk, cs) ==
    IF \E i \in 1..Len(cs) : cs[i] = pk.n THEN CipherTooLarge ELSE Ok(Product(cs))

----------------------------------------------------------------------------
(* PEM codec: big-endian bytes, DER (the asn1 crate), base64, the envelope. *)

RECURSIVE to_bytes_be(_)
\* BigUint::to_bytes_be: the minimal big-endian bytes; zero is the byte 0.
to_bytes_be(v) ==
    IF v < 256 THEN <<v>> ELSE Append(to_bytes_be(v \div 256), v % 256)

RECURSIVE from_bytes_be(_)
\* BigUint::from_bytes_be: leading zero bytes do not change the value.
from_bytes_be(bytes) ==
    IF bytes = <<>> THEN 0
    ELSE from_bytes_be(SubSeq(bytes, 1, Len(bytes) - 1)) * 256 + bytes[Len(bytes)]

\* asn1's check of the contents of an unsigned INTEGER: not empty, minimal,
\* and not negative, that is with the high bit of the first byte clear.
ValidUnsignedInteger(data) ==
    /\ Len(data) > 0
    /\ ~(Len(data) > 1 /\ \/ (data[1] = 0 /\ data[2] < 128)
                          \/ (data[1] = 255 /\ data[2] >= 128))
    /\ data[1] < 128

\* asn1::BigUint::new(bytes): Some only for valid INTEGER contents.
Asn1BigUint_new(bytes) ==
    IF ValidUnsignedInteger(bytes)
    THEN [some |-> TRUE, data |-> bytes]
    ELSE [some |-> FALSE, data |-> <<>>]

\* DER length octets.
DerLength(len) ==
    IF len < 128 THEN <<len>>
    ELSE IF len < 256 THEN <<129, len>>
    ELSE <<130, len \div 256, len % 256>>

\* w.write_element(&Option<BigUint>): an INTEGER for Some, nothing for None.
WriteInteger(opt) ==
    IF opt.some THEN <<2>> \o DerLength(Len(opt.data)) \o opt.data ELSE <<>>

RECURSIVE WriteIntegers(_)
WriteIntegers(opts) ==
    IF opts = <<>> THEN <<>>
    ELSE WriteInteger(Head(opts)) \o WriteIntegers(Tail(opts))

\* w.write_element(&SequenceWriter::new(..)): a SEQUENCE around the contents.
WriteSequence(content) == <<48>> \o DerLength(Len(content)) \o content

ShortData == [ok |-> FALSE, tag |-> 0, value |-> <<>>, rest |-> <<>>]

\* The parser's read of one tag-length-value; lengths are definite and minimal.
ReadTlv(data) ==
    IF Len(data) < 2 THEN ShortData
    ELSE LET first == data[2]
             long == first - 128
             len == IF first < 128 THEN first
                    ELSE IF long = 1 /\ Len(data) >= 3 /\ data[3] >= 128 THEN data[3]
                    ELSE IF long = 2 /\ Len(data) >= 4 /\ data[3] > 0
                         THEN data[3] * 256 + data[4]
                    ELSE 0 - 1
             start == IF first < 128 THEN 3 ELSE 3 + long
         IN  IF len < 0 \/ Len(data) < start - 1 + len THEN ShortData
             ELSE [ok |-> TRUE, tag |-> data[1],
                   value |-> SubSeq(data, start, start - 1 + len),
                   rest |-> SubSeq(data, start + len, Len(data))]

RECURSIVE ReadIntegers(_, _)
\* `count` times d.read_element::<BigUint>()?, then the parser must be empty.
\* Each value is BigUint::from_bytes_be(x.as_bytes()).
ReadIntegers(data, count) ==
    IF count = 0
    THEN [ok |-> data = <<>>, values |-> <<>>]
    ELSE LET tlv == ReadTlv(data)
         IN  IF ~tlv.ok \/ tlv.tag # 2 \/ ~ValidUnsignedInteger(tlv.value)
             THEN [ok |-> FALSE, values |-> <<>>]
             ELSE LET more == ReadIntegers(tlv.rest, count - 1)
                  IN  IF more.ok
                      THEN [ok |-> TRUE,
                            values |-> <<from_bytes_be(tlv.value)>> \o more.values]
                      ELSE [ok |-> FALSE, values |-> <<>>]

\* asn1::parse(data, |d| d.read_element::<Sequence>()?.parse(|d| ..)): one
\* SEQUENCE with nothing after it, holding exactly `count` INTEGERs.
ParseSequence(data, count) ==
    LET tlv == ReadTlv(data)
    IN  IF tlv.ok /\ tlv.tag = 48 /\ tlv.rest = <<>>
        THEN ReadIntegers(tlv.value, count)
        ELSE [ok |-> FALSE, values |-> <<>>]

\* asn1::parse_single::<BigUint>(data): one INTEGER with nothing after it.
ParseSingle(data) == ReadIntegers(data, 1)

\* The alphabet of base64's STANDARD engine; "=" pads.
Base64Alphabet ==
    <<"A", "B", "C", "D", "E", "F", "G", "H", "I", "J", "K", "L", "M",
      "N", "O", "P", "Q", "R", "S", "T", "U", "V", "W", "X", "Y", "Z",
      "a", "b", "c", "d", "e", "f", "g", "h", "i", "j", "k", "l", "m",
      "n", "o", "p", "q", "r", "s", "t", "u", "v", "w", "x", "y", "z",
      "0", "1", "2", "3", "4", "5", "6", "7", "8", "9", "+", "/">>

Sym(sextet) == Base64Alphabet[sextet + 1]

IsSym(ch) == \E i \in 1..Len(Base64Alphabet) : Base64Alphabet[i] = ch

Sextet(ch) == (CHOOSE i \in 1..Len(Base64Alphabet) : Base64Alphabet[i] = ch) - 1

RECURSIVE Base64Encode(_)
\* STANDARD.encode(bytes): three bytes make four symbols, the rest is padded.
Base64Encode(bytes) ==
    IF bytes = <<>> THEN <<>>
    ELSE IF Len(bytes) = 1
    THEN <<Sym(bytes[1] \div 4), Sym((bytes[1] % 4) * 16), "=", "=">>
    ELSE IF Len(bytes) = 2
    THEN <<Sym(bytes[1] \div 4), Sym((bytes[1] % 4) * 16 + bytes[2] \div 16),
           Sym((bytes[2] % 16) * 4), "=">>
    ELSE <<Sym(bytes[1] \div 4), Sym((bytes[1] % 4) * 16 + bytes[2] \div 16),
           Sym((bytes[2] % 16) * 4 + bytes[3] \div 64), Sym(bytes[3] % 64)>>
         \o Base64Encode(SubSeq(bytes, 4, Len(bytes)))

DecodeError == [ok |-> FALSE, bytes |-> <<>>]

RECURSIVE Base64Decode(_)
\* STANDARD.decode(text): groups of four symbols; padding is required, only
\* in the last group, with no bits left over; any other character (white
\* space included) is an error.
Base64Decode(text) ==
    IF text = <<>> THEN [ok |-> TRUE, bytes |-> <<>>]
    ELSE IF Len(text) < 4 \/ ~IsSym(text[1]) \/ ~IsSym(text[2]) THEN DecodeError
    ELSE LET a == Sextet(text[1])
             b == Sextet(text[2])
         IN  IF Len(text) = 4 /\ text[3] = "=" /\ text[4] = "="
             THEN IF b % 16 = 0
                  THEN [ok |-> TRUE, bytes |-> <<a * 4 + b \div 16>>]
                  ELSE DecodeError
             ELSE IF ~IsSym(text[3]) THEN DecodeError
             ELSE LET c == Sextet(text[3])
                  IN  IF Len(text) = 4 /\ text[4] = "="
                      THEN IF c % 4 = 0
                           THEN [ok |-> TRUE,
                                 bytes |-> <<a * 4 + b \div 16,
                                             (b % 16) * 16 + c \div 4>>]
                           ELSE DecodeError
                      ELSE IF ~IsSym(text[4]) THEN DecodeError
                      ELSE LET more == Base64Decode(SubSeq(text, 5, Len(text)))
                           IN  IF more.ok
                               THEN [ok |-> TRUE,
                                     bytes |-> <<a * 4 + b \div 16,
                                                 (b % 16) * 16 + c \div 4,
                                                 (c % 4) * 64 + Sextet(text[4])>>
                                               \o more.bytes]
                               ELSE DecodeError

\* A PEM text is a sequence of characters in which an envelope line
\* "-----BEGIN X-----" or "-----END X-----" is one element.
BeginTag(label) == "-----BEGIN " \o label \o "-----"
EndTag(label) == "-----END " \o label \o "-----"

IsSpace(ch) == ch \in {"\n", " "}

RECURSIVE TrimStart(_)
TrimStart(text) ==
    IF text # <<>> /\ IsSpace(Head(text)) THEN TrimStart(Tail(text)) ELSE text

RECURSIVE TrimEnd(_)
TrimEnd(text) ==
    IF text # <<>> /\ IsSpace(text[Len(text)])
    THEN TrimEnd(SubSeq(text, 1, Len(text) - 1))
    ELSE text

\* str::trim
Trim(text) == TrimEnd(TrimStart(text))

RECURSIVE TrimStartMatches(_, _)
\* str::trim_start_matches(tag): every repetition of the tag is removed.
TrimStartMatches(text, tag) ==
    IF text # <<>> /\ Head(text) = tag THEN TrimStartMatches(Tail(text), tag) ELSE text

RECURSIVE TrimEndMatches(_, _)
TrimEndMatches(text, tag) ==
    IF text # <<>> /\ text[Len(text)] = tag
    THEN TrimEndMatches(SubSeq(text, 1, Len(text) - 1), tag)
    ELSE text

PemOk(fields) == [tag |-> "Ok", fields |-> fields]
PemDecodingError == [tag |-> "PemDecodingError", fields |-> <<>>]

\* The envelope that to_pem writes around the base64 of the DER bytes.
Envelope(label, der) ==
    <<BeginTag(label), "\n">> \o Base64Encode(der) \o <<"\n", EndTag(label), "\n">>

\* Asn1BigUint::new(&x.to_bytes_be()) for every field.
Asn1Fields(fields) == [i \in 1..Len(fields) |-> Asn1BigUint_new(to_bytes_be(fields[i]))]

\* PublicKey::to_pem: SEQUENCE { n, g, h }
public_key_to_pem(fields) ==
    Envelope("PUBLIC KEY", WriteSequence(WriteIntegers(Asn1Fields(fields))))

\* PrivateKey::to_pem: SEQUENCE { n, g, h, gd, p, q, p_squared }
private_key_to_pem(fields) ==
    Envelope("PRIVATE KEY", WriteSequence(WriteIntegers(Asn1Fields(fields))))

\* Ciphertext::to_pem: the INTEGER itself, without a SEQUENCE.
ciphertext_to_pem(fields) ==
    Envelope("CIPHERTEXT", WriteIntegers(Asn1Fields(fields)))

\* DecodeEnvelope without the check of the tags.
DecodeEnvelope_unchecked(label, pem) ==
    Base64Decode(
        Trim(TrimEndMatches(TrimStartMatches(Trim(pem), BeginTag(label)),
                            EndTag(label))))

\* The first steps of every from_pem: trim, check the envelope, cut the
\* tags, trim, decode the base64.
DecodeEnvelope(label, pem) ==
    LET text == Trim(pem)
    IN  IF text = <<>> \/ Head(text) # BeginTag(label)
           \/ text[Len(text)] # EndTag(label)
        THEN DecodeError
        ELSE Base64Decode(
                 Trim(TrimEndMatches(TrimStartMatches(text, BeginTag(label)),
                                     EndTag(label))))

FromPem(label, pem, count, sequence) ==
    LET asn1_decoded == DecodeEnvelope(label, pem)
    IN  IF ~asn1_decoded.ok THEN PemDecodingError
        ELSE LET parsed == IF sequence THEN ParseSequence(asn1_decoded.bytes, count)
                           ELSE ParseSingle(asn1_decoded.bytes)
             IN  IF parsed.ok THEN PemOk(parsed.values) ELSE PemDecodingError

\* PublicKey::from_pem
public_key_from_pem(pem) == FromPem("PUBLIC KEY", pem, 3, TRUE)

\* PrivateKey::from_pem: the seven fields are stored as they are read.
private_key_from_pem(pem) == FromPem("PRIVATE KEY", pem, 7, TRUE)

\* Ciphertext::from_pem
ciphertext_from_pem(pem) == FromPem("CIPHERTEXT", pem, 1, FALSE)

NoPem == [kind |-> "none", fields |-> <<>>]
NoPemStr == <<>>
NoPemRes == [tag |-> "none", fields |-> <<>>]
NoEdit == "none"


----------------------------------------------------------------------------
(* The state machine.                                                      *)

Init ==
    /\ pc = "start"
    /\ ou = DefaultOU
    /\ public_key = DefaultPublicKey
    /\ private_key = DefaultPrivateKey
    /\ ciphers = <<>>
    /\ last = NoCall
    /\ pem_obj = NoPem
    /\ pem_str = NoPemStr
    /\ pem_res = NoPemRes
    /\ pem_edit = NoEdit

\* OkamotoUchiyama::init, up to the generator loop: the two primes, p^2, n.
init_primes ==
    /\ pc = "start"
    /\ \E length \in KeyLengths :
         \E p \in NewPrime(length \div 3), q \in NewPrime(length \div 2) :
            ou' = [DefaultOU EXCEPT !.p = p, !.p_squared = p * p, !.q = q,
                                    !.n = (p * p) * q, !.length = length]
    /\ pc' = "gsearch"
    /\ UNCHANGED <<public_key, private_key, ciphers, last>>
    /\ UNCHANGED pem_vars

\* One turn of init's generator loop; on acceptance h is computed and the
\* struct is returned.
init_gsearch ==
    /\ pc = "gsearch"
    /\ \E g \in GenBigUintRange(2, ou.n - 1) :
         LET gpminuse1 == ModPow(g, ou.p - 1, ou.p_squared) % ou.p_squared
         IN  IF GeneratorAccepted(gpminuse1)
             THEN /\ ou' = [ou EXCEPT !.g = g, !.gpminuse1 = gpminuse1,
                                      !.h = ModPow(g, ou.n, ou.n) % ou.n]
                  /\ pc' = "params"
             ELSE /\ ou' = [ou EXCEPT !.g = g, !.gpminuse1 = gpminuse1]
                  /\ pc' = "gsearch"
    /\ UNCHANGED <<public_key, private_key, ciphers, last>>
    /\ UNCHANGED pem_vars

\* private_key = ou.generate_private_key(); public_key = private_key.public_key
generate_keys ==
    /\ pc = "params"
    /\ private_key' = generate_private_key(ou)
    /\ public_key' = private_key'.public_key
    /\ pc' = "ready"
    /\ UNCHANGED <<ou, ciphers, last>>
    /\ UNCHANGED pem_vars

\* The primes a caller of the key constructors uses.
CallerPrimes == {x \in 2..MaxCallerPrime : IsPrime(x)}

\* A caller builds a public key for a modulus n = p^2 * q it knows the
\* factors of, with any g in [2, n - 1] and h = g^n mod n.
new_public_key ==
    /\ pc = "start"
    /\ \E p \in CallerPrimes, q \in CallerPrimes :
         /\ p # q
         /\ \E g \in 2..((p * p) * q - 1) :
              LET n == (p * p) * q
              IN  public_key' = PublicKey_new(n, g, ModPow(g, n, n) % n)
    /\ pc' = "pk"
    /\ UNCHANGED <<ou, private_key, ciphers, last>>
    /\ UNCHANGED pem_vars

\* The caller builds the private key from the public key and its factors.
new_private_key ==
    /\ pc = "pk"
    /\ ciphers = <<>>
    /\ last = NoCall
    /\ \E p \in CallerPrimes, q \in CallerPrimes :
         /\ p # q
         /\ (p * p) * q = public_key.n
         /\ private_key' = PrivateKey_new(public_key, p, q)
    /\ pc' = "ready"
    /\ UNCHANGED <<ou, public_key, ciphers, last>>
    /\ UNCHANGED pem_vars

\* The ciphertexts of the list, and what the model remembers of each.
Values(cs) == [i \in 1..Len(cs) |-> cs[i].c]
Plains(cs) == [i \in 1..Len(cs) |-> cs[i].m]
Sources(cs) == [i \in 1..Len(cs) |-> cs[i].src]

RECURSIVE Sum(_)
\* The sum of a list of plaintexts.
Sum(ms) == IF ms = <<>> THEN 0 ELSE Head(ms) + Sum(Tail(ms))

\* The program encrypts a message of the set M and keeps the ciphertext; it
\* encrypts its messages before it combines or decrypts any.
Encrypt(M) ==
    /\ pc = "ready"
    /\ last = NoCall
    /\ Len(ciphers) < MaxCiphers
    /\ \E m \in M, r \in EncryptRandom(public_key) :
         ciphers' = Append(ciphers,
                           [c |-> encrypt(m, public_key, r), m |-> m, src |-> "encrypt"])
    /\ UNCHANGED <<pc, ou, public_key, private_key, last>>
    /\ UNCHANGED pem_vars

\* A plaintext of the message space [0, p).
encrypt_plaintext == Encrypt(0..(private_key.p - 1))

\* Any message, up to and beyond the modulus; one message is encrypted.
encrypt_any ==
    /\ ciphers = <<>>
    /\ Encrypt(0..(public_key.n + 1))

\* The values a caller wraps as ciphertexts without encrypting anything.
RawValues(pk) == {0, 1, 2, pk.n - 1, pk.n, pk.n + 1, 2 * pk.n}

\* Ciphertext::new(value): any BigUint is a ciphertext.
ciphertext_new ==
    /\ pc = "pk"
    /\ last = NoCall
    /\ Len(ciphers) < MaxCiphers
    /\ \E v \in RawValues(public_key) :
         ciphers' = Append(ciphers, [c |-> v, m |-> 0, src |-> "new"])
    /\ UNCHANGED <<pc, ou, public_key, private_key, last>>
    /\ UNCHANGED pem_vars

\* The calls below are pure: they change neither the keys nor the ciphertexts,
\* so a run of the model follows one call, and the decryption of its result.
HomCall(op, impl, cs, res) ==
    [op |-> op, impl |-> impl, via |-> "none", args |-> Values(cs),
     plain |-> Plains(cs), srcs |-> Sources(cs), res |-> res]

HasPublicKey == pc \in {"pk", "ready"}

\* public_key.homomorphic_encrypt_two(&c1, &c2), Ciphertext implementation.
call_homomorphic_encrypt_two ==
    /\ HasPublicKey
    /\ last = NoCall
    /\ \E i \in 1..Len(ciphers), j \in 1..Len(ciphers) :
         last' = HomCall("two", "ciphertext", <<ciphers[i], ciphers[j]>>,
                         homomorphic_encrypt_two(public_key, ciphers[i].c, ciphers[j].c))
    /\ UNCHANGED <<pc, ou, public_key, private_key, ciphers>>
    /\ UNCHANGED pem_vars

\* public_key.homomorphic_encrypt_two(&c1, &c2), BigUint implementation.
call_lib_homomorphic_encrypt_two ==
    /\ HasPublicKey
    /\ last = NoCall
    /\ \E i \in 1..Len(ciphers), j \in 1..Len(ciphers) :
         last' = HomCall("two", "lib", <<ciphers[i], ciphers[j]>>,
                         lib_homomorphic_encrypt_two(public_key, ciphers[i].c, ciphers[j].c))
    /\ UNCHANGED <<pc, ou, public_key, private_key, ciphers>>
    /\ UNCHANGED pem_vars

\* public_key.homomorphic_encrypt_multiple(vec![...]) over the ciphertexts
\* the program holds, Ciphertext implementation.
call_homomorphic_encrypt_multiple ==
    /\ HasPublicKey
    /\ last = NoCall
    /\ last' = HomCall("multiple", "ciphertext", ciphers,
                       homomorphic_encrypt_multiple(public_key, Values(ciphers)))
    /\ UNCHANGED <<pc, ou, public_key, private_key, ciphers>>
    /\ UNCHANGED pem_vars

\* The same call on the BigUint implementation.
call_lib_homomorphic_encrypt_multiple ==
    /\ HasPublicKey
    /\ last = NoCall
    /\ last' = HomCall("multiple", "lib", ciphers,
                       lib_homomorphic_encrypt_multiple(public_key, Values(ciphers)))
    /\ UNCHANGED <<pc, ou, public_key, private_key, ciphers>>
    /\ UNCHANGED pem_vars

\* OkamotoUchiyama::decrypt of a ciphertext the program holds.
decrypt_cipher ==
    /\ pc = "ready"
    /\ last = NoCall
    /\ \E i \in 1..Len(ciphers) :
         last' = [op |-> "decrypt", impl |-> "none", via |-> ciphers[i].src,
                  args |-> <<ciphers[i].c>>, plain |-> <<ciphers[i].m>>,
                  srcs |-> <<ciphers[i].src>>,
                  res |-> decrypt(ciphers[i].c, private_key)]
    /\ UNCHANGED <<pc, ou, public_key, private_key, ciphers>>
    /\ UNCHANGED pem_vars

\* OkamotoUchiyama::decrypt of the result of the homomorphic call before it.
decrypt_result ==
    /\ pc = "ready"
    /\ last.op \in {"two", "multiple"}
    /\ last.res.tag = "Ok"
    /\ last' = [op |-> "decrypt", impl |-> last.impl, via |-> last.op,
                args |-> <<last.res.value>>, plain |-> last.plain,
                srcs |-> last.srcs, res |-> decrypt(last.res.value, private_key)]
    /\ UNCHANGED <<pc, ou, public_key, private_key, ciphers>>
    /\ UNCHANGED pem_vars

\* The integers of the keys and ciphertexts handed to the codec: one and two
\* bytes long, with the high bit of the first byte clear and set.
PemValues == {0, 127, 128, 256, 32768}
PemKeyValues == {127, 128, 256}

\* PublicKey::new(n, g, h) with integers of any magnitude.
pem_public_key ==
    /\ pc = "start"
    /\ pem_obj = NoPem
    /\ \E n \in PemValues, g \in PemValues, h \in PemValues :
         pem_obj' = [kind |-> "PUBLIC KEY", fields |-> <<n, g, h>>]
    /\ UNCHANGED <<pem_str, pem_res, pem_edit>>
    /\ UNCHANGED crypto_vars

\* A PrivateKey {public_key {n, g, h}, gd, p, q, p_squared}; the fields are
\* public, so they hold any integers.
pem_private_key ==
    /\ pc = "start"
    /\ pem_obj = NoPem
    /\ \E n \in PemKeyValues, g \in PemKeyValues, h \in PemKeyValues,
          gd \in PemKeyValues, p \in PemKeyValues, q \in PemKeyValues,
          p_squared \in PemKeyValues :
         pem_obj' = [kind |-> "PRIVATE KEY",
                     fields |-> <<n, g, h, gd, p, q, p_squared>>]
    /\ UNCHANGED <<pem_str, pem_res, pem_edit>>
    /\ UNCHANGED crypto_vars

\* Ciphertext::new(value)
pem_ciphertext ==
    /\ pc = "start"
    /\ pem_obj = NoPem
    /\ \E value \in PemValues :
         pem_obj' = [kind |-> "CIPHERTEXT", fields |-> <<value>>]
    /\ UNCHANGED <<pem_str, pem_res, pem_edit>>
    /\ UNCHANGED crypto_vars

ToPem(kind, to_pem_text) ==
    /\ pem_obj.kind = kind
    /\ pem_str = NoPemStr
    /\ pem_str' = to_pem_text
    /\ UNCHANGED <<pem_obj, pem_res, pem_edit>>
    /\ UNCHANGED crypto_vars

call_public_key_to_pem == ToPem("PUBLIC KEY", public_key_to_pem(pem_obj.fields))
call_private_key_to_pem == ToPem("PRIVATE KEY", private_key_to_pem(pem_obj.fields))
call_ciphertext_to_pem == ToPem("CIPHERTEXT", ciphertext_to_pem(pem_obj.fields))

FromPemCall(kind, result) ==
    /\ pem_obj.kind = kind
    /\ pem_str # NoPemStr
    /\ pem_res = NoPemRes
    /\ pem_res' = result
    /\ UNCHANGED <<pem_obj, pem_str, pem_edit>>
    /\ UNCHANGED crypto_vars

call_public_key_from_pem == FromPemCall("PUBLIC KEY", public_key_from_pem(pem_str))
call_private_key_from_pem == FromPemCall("PRIVATE KEY", private_key_from_pem(pem_str))
call_ciphertext_from_pem == FromPemCall("CIPHERTEXT", ciphertext_from_pem(pem_str))

\* A key or a ciphertext, its to_pem, and from_pem of the text.
NextPem ==
    \/ pem_public_key
    \/ pem_private_key
    \/ pem_ciphertext
    \/ call_public_key_to_pem
    \/ call_private_key_to_pem
    \/ call_ciphertext_to_pem
    \/ call_public_key_from_pem
    \/ call_private_key_from_pem
    \/ call_ciphertext_from_pem

SpecPem == Init /\ [][NextPem]_vars

\* The base64 body of a PEM text that to_pem returned, and its DER bytes.
Body(text) == SubSeq(text, 3, Len(text) - 3)
Payload(text) == Base64Decode(Body(text)).bytes

\* to_pem of an object of the given kind.
ToPemText(kind, fields) ==
    IF kind = "PUBLIC KEY" THEN public_key_to_pem(fields)
    ELSE IF kind = "PRIVATE KEY" THEN private_key_to_pem(fields)
    ELSE ciphertext_to_pem(fields)

\* from_pem of the type of the given kind.
FromPemText(kind, text) ==
    IF kind = "PUBLIC KEY" THEN public_key_from_pem(text)
    ELSE IF kind = "PRIVATE KEY" THEN private_key_from_pem(text)
    ELSE ciphertext_from_pem(text)

\* The label of another type's envelope.
OtherLabel(kind) == IF kind = "PUBLIC KEY" THEN "PRIVATE KEY" ELSE "PUBLIC KEY"

\* The places of a text of length len that the caller's edits touch.
Cuts(len) == {k \in {0, 1, len \div 2, len - 1} : 0 <= k /\ k < len}

Without(fields, i) == SubSeq(fields, 1, i - 1) \o SubSeq(fields, i + 1, Len(fields))

\* Bodies that are not base64: a character outside the alphabet, or a text
\* that lost its last character.
BadBodies(body) ==
    {Append(body, "*")}
    \cup {[body EXCEPT ![k + 1] = "*"] : k \in Cuts(Len(body))}
    \cup (IF body = <<>> THEN {} ELSE {SubSeq(body, 1, Len(body) - 1)})

\* The texts the caller hands to from_pem in place of a PEM text: without
\* the matching tags, with a malformed body, with a truncated payload, with
\* an INTEGER missing.
Malformed(kind, fields, text) ==
    LET body == Body(text)
        der == Payload(text)
    IN  {[edit |-> "no begin tag", text |-> Tail(text)],
         [edit |-> "no end tag", text |-> SubSeq(text, 1, Len(text) - 2)],
         [edit |-> "other tags",
          text |-> <<BeginTag(OtherLabel(kind)), "\n">> \o body
                   \o <<"\n", EndTag(OtherLabel(kind)), "\n">>]}
        \cup {[edit |-> "malformed base64",
               text |-> <<BeginTag(kind), "\n">> \o b \o <<"\n", EndTag(kind), "\n">>] :
                 b \in BadBodies(body)}
        \cup {[edit |-> "truncated DER",
               text |-> Envelope(kind, SubSeq(der, 1, k))] : k \in Cuts(Len(der))}
        \cup {[edit |-> "missing INTEGER",
               text |-> ToPemText(kind, Without(fields, i))] : i \in 1..Len(fields)}

Faults == {"no begin tag", "no end tag", "other tags", "malformed base64",
           "truncated DER", "missing INTEGER"}

\* The same PEM text laid out with white space: around the envelope, around
\* the body, and as newlines inside the body.
Reformatted(kind, text) ==
    LET body == Body(text)
    IN  {[edit |-> "surrounding whitespace",
          text |-> <<"\n", " ", " ">> \o text \o <<" ", "\n">>],
         [edit |-> "surrounding whitespace",
          text |-> <<BeginTag(kind), "\n", " ", " ">> \o body
                   \o <<" ", "\n", "\n", EndTag(kind), "\n">>]}
        \cup {[edit |-> "embedded newline",
               text |-> <<BeginTag(kind), "\n">> \o SubSeq(body, 1, k) \o <<"\n">>
                        \o SubSeq(body, k + 1, Len(body))
                        \o <<"\n", EndTag(kind), "\n">>] :
                 k \in Cuts(Len(body)) \ {0}}

Layouts == {"surrounding whitespace", "embedded newline"}

EditPem(texts) ==
    /\ pem_str # NoPemStr
    /\ pem_edit = NoEdit
    /\ pem_res = NoPemRes
    /\ \E e \in texts :
         /\ pem_str' = e.text
         /\ pem_edit' = e.edit
    /\ UNCHANGED <<pem_obj, pem_res>>
    /\ UNCHANGED crypto_vars

\* The caller hands from_pem a text that is not the PEM form of an object.
malform_pem == EditPem(Malformed(pem_obj.kind, pem_obj.fields, pem_str))

\* The caller hands from_pem the PEM text in another layout.
reformat_pem == EditPem(Reformatted(pem_obj.kind, pem_str))

\* from_pem of texts that did not come unchanged from to_pem.
NextPemText ==
    \/ pem_public_key
    \/ pem_private_key
    \/ pem_ciphertext
    \/ call_public_key_to_pem
    \/ call_private_key_to_pem
    \/ call_ciphertext_to_pem
    \/ malform_pem
    \/ reformat_pem
    \/ call_public_key_from_pem
    \/ call_private_key_from_pem
    \/ call_ciphertext_from_pem

SpecPemText == Init /\ [][NextPemText]_vars

\* Key generation alone: init and the extraction of the two keys.
NextInit ==
    \/ init_primes
    \/ init_gsearch
    \/ generate_keys

\* init runs its loop until it leaves it: a step is taken whenever one is
\* possible.
SpecInit == Init /\ [][NextInit]_vars /\ WF_vars(NextInit)

\* PublicKey::new for a modulus n = p^2 * q with the smallest g: the
\* homomorphic operations read only n.
new_public_key_modulus ==
    /\ pc = "start"
    /\ \E p \in CallerPrimes, q \in CallerPrimes :
         /\ p # q
         /\ LET n == (p * p) * q
            IN  public_key' = PublicKey_new(n, 2, ModPow(2, n, n) % n)
    /\ pc' = "pk"
    /\ UNCHANGED <<ou, private_key, ciphers, last>>
    /\ UNCHANGED pem_vars

\* Ciphertext::new(value) for the elements of a longer list.
ciphertext_argument ==
    /\ pc = "pk"
    /\ last = NoCall
    /\ Len(ciphers) < MaxArguments
    /\ \E v \in RawValues(public_key) :
         ciphers' = Append(ciphers, [c |-> v, m |-> 0, src |-> "new"])
    /\ UNCHANGED <<pc, ou, public_key, private_key, last>>
    /\ UNCHANGED pem_vars

\* The Ciphertext implementation on lists of caller-built ciphertexts.
NextOrder ==
    \/ new_public_key_modulus
    \/ ciphertext_argument
    \/ call_homomorphic_encrypt_two
    \/ call_homomorphic_encrypt_multiple

SpecOrder == Init /\ [][NextOrder]_vars

\* Some of the g of [2, n - 1] a caller can choose: small ones, with and
\* without a factor in common with n, and a large one.
Generators(n) == {2, 3, 6, n - 2}

\* PublicKey::new(n, g, h) for a modulus n = p^2 * q, one of these g and
\* h = g^n mod n.
new_public_key_generators ==
    /\ pc = "start"
    /\ \E p \in CallerPrimes, q \in CallerPrimes :
         /\ p # q
         /\ LET n == (p * p) * q
            IN  \E g \in Generators(n) :
                   public_key' = PublicKey_new(n, g, ModPow(g, n, n) % n)
    /\ pc' = "pk"
    /\ UNCHANGED <<ou, private_key, ciphers, last>>
    /\ UNCHANGED pem_vars

\* Some of the values encrypt can draw r from: the ends of its range.
FreshRandom(pk) == {1, pk.n - 2}

\* A fresh encryption of a plaintext of [0, p); at most MaxCiphers of them.
encrypt_fresh ==
    /\ pc = "ready"
    /\ last = NoCall
    /\ Cardinality({i \in 1..Len(ciphers) : ciphers[i].src = "encrypt"}) < MaxCiphers
    /\ \E m \in 0..(private_key.p - 1), r \in FreshRandom(public_key) :
         ciphers' = Append(ciphers,
                           [c |-> encrypt(m, public_key, r), m |-> m, src |-> "encrypt"])
    /\ UNCHANGED <<pc, ou, public_key, private_key, last>>
    /\ UNCHANGED pem_vars

\* The number of homomorphic steps whose results the program holds.
Steps == Cardinality({i \in 1..Len(ciphers) : ciphers[i].src # "encrypt"})

\* The lists of at most MaxArguments ciphertexts taken from those the
\* program holds, in any order and with repetitions.
Selections ==
    UNION {[1..k -> 1..Len(ciphers)] : k \in 0..MaxArguments}

\* One step of a sequence of operations: the program keeps the ciphertext of
\* an Ok result, with the sum of the plaintexts that went into it, and goes
\* on; an error ends the sequence.
Step(op, cs, res) ==
    /\ pc = "ready"
    /\ last = NoCall
    /\ Steps < MaxSteps
    /\ IF res.tag = "Ok"
       THEN /\ ciphers' = Append(ciphers,
                                 [c |-> res.value, m |-> Sum(Plains(cs)), src |-> op])
            /\ last' = last
       ELSE /\ last' = HomCall(op, "ciphertext", cs, res)
            /\ ciphers' = ciphers
    /\ UNCHANGED <<pc, ou, public_key, private_key>>
    /\ UNCHANGED pem_vars

\* homomorphic_encrypt_two on two ciphertexts the program holds.
step_homomorphic_encrypt_two ==
    \E i \in 1..Len(ciphers), j \in 1..Len(ciphers) :
        Step("two", <<ciphers[i], ciphers[j]>>,
             homomorphic_encrypt_two(public_key, ciphers[i].c, ciphers[j].c))

\* homomorphic_encrypt_multiple on a list of ciphertexts the program holds.
step_homomorphic_encrypt_multiple ==
    \E sel \in Selections :
        LET cs == [k \in 1..Len(sel) |-> ciphers[sel[k]]]
        IN  Step("multiple", cs, homomorphic_encrypt_multiple(public_key, Values(cs)))

\* Sequences of homomorphic operations on fresh encryptions and on earlier
\* results, and the decryption of any of the ciphertexts.
NextClosure ==
    \/ new_public_key_generators
    \/ new_private_key
    \/ encrypt_fresh
    \/ step_homomorphic_encrypt_two
    \/ step_homomorphic_encrypt_multiple
    \/ decrypt_cipher

SpecClosure == Init /\ [][NextClosure]_vars

\* Keys from init, plaintexts of the message space, every operation.
Next ==
    \/ init_primes
    \/ init_gsearch
    \/ generate_keys
    \/ encrypt_plaintext
    \/ call_homomorphic_encrypt_two
    \/ call_lib_homomorphic_encrypt_two
    \/ call_homomorphic_encrypt_multiple
    \/ call_lib_homomorphic_encrypt_multiple
    \/ decrypt_cipher
    \/ decrypt_result

Spec == Init /\ [][Next]_vars

\* Keys from the constructors, one message of any size, decryption.
NextKeys ==
    \/ new_public_key
    \/ new_private_key
    \/ encrypt_any
    \/ decrypt_cipher

SpecKeys == Init /\ [][NextKeys]_vars

\* A public key from the constructor, ciphertexts of any value, the
\* homomorphic operations.
NextHom ==
    \/ new_public_key
    \/ ciphertext_new
    \/ call_homomorphic_encrypt_two
    \/ call_lib_homomorphic_encrypt_two
    \/ call_homomorphic_encrypt_multiple
    \/ call_lib_homomorphic_encrypt_multiple

SpecHom == Init /\ [][NextHom]_vars

----------------------------------------------------------------------------
(* Properties of the cryptographic core.                                   *)

\* Every argument of the last call is a ciphertext that encrypt returned.
AllEncrypted == \A i \in 1..Len(last.srcs) : last.srcs[i] = "encrypt"

\* The plaintexts behind the arguments of the last call are in [0, p).
AllInMessageSpace == \A i \in 1..Len(last.plain) : last.plain[i] < private_key.p

\* The stored helper of the private key is g^(p-1) mod p^2 and is not 1.
GeneratorCondition ==
    /\ private_key.gd = ModPow(public_key.g, private_key.p - 1, private_key.p_squared)
    /\ private_key.gd # 1

\* L2 = (gd - 1) / p has no inverse modulo p.
NoInverse ==
    /\ private_key.gd >= 1
    /\ ~ModInverse((private_key.gd - 1) \div private_key.p, private_key.p).some

\* C1: with the keys of a parameter set that init returned, decrypting the
\* encryption of a plaintext m in [0, p) returns m, whatever g the generator
\* loop accepted and whatever r encrypt drew.
C1_RoundTripInit ==
    (last.op = "decrypt" /\ last.via = "encrypt")
        => last.res = Ok(last.plain[1])

\* C2, as stated: with caller-built keys (p, q distinct primes, n = p^2 q,
\* g in [2, n-1] with g^(p-1) mod p^2 # 1, h = g^n mod n), decrypting the
\* encryption of m in [0, p) returns m.
C2_RoundTripCaller ==
    (last.op = "decrypt" /\ last.via = "encrypt" /\ AllInMessageSpace
        /\ GeneratorCondition)
        => last.res = Ok(last.plain[1])

\* C2, amended: the same, for the g that p does not divide.
C2_RoundTripCallerCoprime ==
    (last.op = "decrypt" /\ last.via = "encrypt" /\ AllInMessageSpace
        /\ GeneratorCondition /\ public_key.g % private_key.p # 0)
        => last.res = Ok(last.plain[1])

\* A non-zero plaintext was encrypted under a key with the generator
\* condition and p not dividing g, and decrypted.
C2_Witness ==
    /\ last.op = "decrypt" /\ last.via = "encrypt" /\ AllInMessageSpace
    /\ GeneratorCondition /\ public_key.g % private_key.p # 0
    /\ private_key.p = 5 /\ last.plain[1] = 3
    /\ last.res = Ok(3)

\* C3: with keys from init, the product of the encryptions of a and b
\* (homomorphic_encrypt_two) decrypts to (a + b) mod p.
C3_PairwiseHomomorphism ==
    (last.op = "decrypt" /\ last.via = "two" /\ AllEncrypted)
        => last.res = Ok((last.plain[1] + last.plain[2]) % private_key.p)

\* C4: with keys from init, the result of homomorphic_encrypt_multiple over
\* encryptions of m_1..m_k decrypts to (m_1 + ... + m_k) mod p, in both
\* implementations.
C4_NaryHomomorphism ==
    (last.op = "decrypt" /\ last.via = "multiple" /\ AllEncrypted)
        => last.res = Ok(Sum(last.plain) % private_key.p)

\* C5: every ciphertext that encrypt, homomorphic_encrypt_two or
\* homomorphic_encrypt_multiple produced under the public key is in [0, n).
C5_CiphertextRange ==
    /\ \A i \in 1..Len(ciphers) :
         ciphers[i].src = "encrypt" => (0 <= ciphers[i].c /\ ciphers[i].c < public_key.n)
    /\ (last.op \in {"two", "multiple"} /\ last.res.tag = "Ok")
         => (0 <= last.res.value /\ last.res.value < public_key.n)

\* C6: encrypt produces no ciphertext for a message m >= n.
C6_EncryptRejectsOversized ==
    \A i \in 1..Len(ciphers) :
        ciphers[i].src = "encrypt" => ciphers[i].m < public_key.n

\* C7: the homomorphic operations return CipherTooLarge exactly when an
\* argument equals n, and Ok in every other case (arguments above n and the
\* empty list included).
C7_SentinelGuard ==
    (last.op \in {"two", "multiple"}) =>
        IF \E i \in 1..Len(last.args) : last.args[i] = public_key.n
        THEN last.res = CipherTooLarge
        ELSE last.res.tag = "Ok"

\* A list with an element above n and an element equal to n was refused.
C7_Witness ==
    /\ last.op = "multiple"
    /\ last.args = <<2 * public_key.n, public_key.n>>
    /\ last.res = CipherTooLarge

\* C8: for a list with no element equal to n, homomorphic_encrypt_multiple
\* returns the product of the list modulo n, and 1 for the empty list.
C8_MultipleValue ==
    (last.op = "multiple" /\ \A i \in 1..Len(last.args) : last.args[i] # public_key.n)
        => /\ last.res = Ok(Product(last.args) % public_key.n)
           /\ (last.args = <<>> => last.res = Ok(1))

\* C9: when L2 = (gd - 1) / p has no inverse modulo p, decrypt returns the
\* error DecryptionFailure; it neither aborts nor returns a plaintext.
C9_DecryptionFailure ==
    (last.op = "decrypt" /\ NoInverse) => last.res.tag = "DecryptionFailure"

----------------------------------------------------------------------------
(* Properties of the PEM codec.                                            *)

\* C10: from_pem(to_pem(K)) returns Ok with a value equal to K field by
\* field, for every public key, private key and ciphertext K.
C10_PemRoundTrip ==
    (pem_res # NoPemRes) => pem_res = PemOk(pem_obj.fields)

\* The DER payload inside the PEM text that to_pem returned.
PemPayload == Base64Decode(SubSeq(pem_str, 3, Len(pem_str) - 3))

\* C11: the payload that to_pem emits is one SEQUENCE holding every field of
\* the object as an INTEGER, in the order of the fields: 1 INTEGER for a
\* Ciphertext, 3 for a PublicKey, 7 for a PrivateKey.
C11_PayloadStructure ==
    (pem_str # NoPemStr) =>
        LET parsed == ParseSequence(PemPayload.bytes, Len(pem_obj.fields))
        IN  /\ PemPayload.ok
            /\ parsed.ok
            /\ parsed.values = pem_obj.fields

\* C12: from_pem of a text without the matching tags, with a malformed base64
\* body, with a truncated DER payload or with an INTEGER missing returns
\* PemDecodingError; it returns no key and does not abort.
C12_DecodingErrors ==
    (pem_edit \in Faults /\ pem_res # NoPemRes) => pem_res = PemDecodingError

\* from_pem refused the truncated payload of a private key whose own PEM
\* text parses.
C12_Witness ==
    /\ pem_edit = "truncated DER"
    /\ pem_obj.kind = "PRIVATE KEY"
    /\ FromPemText(pem_obj.kind, ToPemText(pem_obj.kind, pem_obj.fields)).tag = "Ok"
    /\ pem_res = PemDecodingError

\* C13: from_pem of a PEM text with white space around it and newlines
\* inside its base64 body returns what it returns for the single-line text.
C13_WhitespaceTolerance ==
    (pem_edit \in Layouts /\ pem_res # NoPemRes)
        => pem_res = FromPemText(pem_obj.kind, ToPemText(pem_obj.kind, pem_obj.fields))

----------------------------------------------------------------------------
(* Properties of the error type.                                           *)

\* C14: the message of the error that a homomorphic operation returned is
\* different from the message of every error of another kind.
C14_DistinctMessages ==
    (last.res.tag = "CipherTooLarge") =>
        \A e \in Errors : e.tag # last.res.tag => Display(e) # Display(last.res)

----------------------------------------------------------------------------
(* Properties of key generation.                                           *)

\* init has returned its parameter set.
InitReturned == pc \in {"params", "ready"}

\* C15: in every parameter set that init returns, the stored helper is
\* g^(p-1) mod p^2 and is not 1.
C15_GeneratorInvariant ==
    InitReturned =>
        /\ ou.gpminuse1 = ModPow(ou.g, ou.p - 1, ou.p_squared)
        /\ ou.gpminuse1 # 1

\* C16: every parameter set that init returns has p_squared = p * p,
\* n = p_squared * q, h = g^n mod n and 2 <= g <= n - 2, and the extracted
\* keys carry these values.
C16_StructuralInvariants ==
    /\ InitReturned =>
         /\ ou.p_squared = ou.p * ou.p
         /\ ou.n = ou.p_squared * ou.q
         /\ ou.h = ModPow(ou.g, ou.n, ou.n)
         /\ 2 <= ou.g /\ ou.g <= ou.n - 2
    /\ (pc = "ready") =>
         /\ public_key = [n |-> ou.n, g |-> ou.g, h |-> ou.h]
         /\ private_key.public_key = public_key
         /\ private_key.gd = ModPow(ou.g, ou.p - 1, ou.p_squared)
         /\ private_key.p = ou.p
         /\ private_key.q = ou.q
         /\ private_key.p_squared = ou.p_squared

\* The keys were extracted from a parameter set with the largest g.
C16_Witness ==
    /\ pc = "ready"
    /\ ou.p = 3 /\ ou.q = 7
    /\ ou.g = ou.n - 2
    /\ private_key.p_squared = 9

\* C17: the generator loop of init is left after finitely many attempts,
\* also when its candidates are rejected.
C17_BoundedSearch == (pc = "gsearch") ~> (pc # "gsearch")

----------------------------------------------------------------------------
(* Properties of decrypt's arithmetic.                                     *)

\* One of the two divisions by p of the last decrypt is not an exact
\* division of a non-negative integer.
InexactDivision ==
    LET a == ModPow(last.args[1], private_key.p - 1, private_key.p_squared)
    IN  \/ a = 0
        \/ private_key.gd = 0
        \/ (a - 1) % private_key.p # 0
        \/ (private_key.gd - 1) % private_key.p # 0

\* C18: when (a - 1) / p or (gd - 1) / p is not an exact division of a
\* non-negative integer, decrypt returns DecryptionFailure; it returns no
\* plaintext and does not abort.
C18_ExactDivision ==
    (last.op = "decrypt" /\ InexactDivision) => last.res.tag = "DecryptionFailure"

----------------------------------------------------------------------------
(* Properties of the keys read from PEM.                                   *)

\* C19: a private key that PrivateKey::from_pem returned has
\* p_squared = p * p, n = p_squared * q and gd = g^(p-1) mod p^2, as the key
\* that PrivateKey::new builds from its public key, p and q.
C19_PemKeyInvariants ==
    (pem_obj.kind = "PRIVATE KEY" /\ pem_res.tag = "Ok") =>
        LET f == pem_res.fields
            pk == PublicKey_new(f[1], f[2], f[3])
        IN  /\ f[7] = f[5] * f[5]
            /\ f[1] = f[7] * f[6]
            /\ <<f[4], f[5], f[6], f[7]>>
                 = <<PrivateKey_new(pk, f[5], f[6]).gd, f[5], f[6],
                     PrivateKey_new(pk, f[5], f[6]).p_squared>>

----------------------------------------------------------------------------
(* Properties of the order of the homomorphic operations.                  *)

RECURSIVE Orders(_)
\* Every order of the elements of a list.
Orders(cs) ==
    IF Len(cs) <= 1 THEN {cs}
    ELSE UNION {{<<cs[i]>> \o rest : rest \in Orders(Without(cs, i))} : i \in 1..Len(cs)}

\* homomorphic_encrypt_two on the results of two earlier combinations; an
\* error of either is the result of the whole.
TwoOfResults(pk, r1, r2) ==
    IF r1.tag # "Ok" THEN r1
    ELSE IF r2.tag # "Ok" THEN r2
    ELSE homomorphic_encrypt_two(pk, r1.value, r2.value)

RECURSIVE Groupings(_, _)
\* The results of every nesting of pairwise combinations over a list, its
\* elements taken in their order.
Groupings(pk, cs) ==
    IF Len(cs) = 1 THEN {Ok(cs[1])}
    ELSE UNION {{TwoOfResults(pk, l, r) :
                    l \in Groupings(pk, SubSeq(cs, 1, k)),
                    r \in Groupings(pk, SubSeq(cs, k + 1, Len(cs)))} :
                k \in 1..(Len(cs) - 1)}

\* C20: homomorphic_encrypt_two returns the same for its arguments
\* exchanged, and homomorphic_encrypt_multiple returns the same value or the
\* same error for every order of its list and for every nesting of pairwise
\* combinations of the list (crypto/public_key.rs).
C20_OrderIndependence ==
    /\ (last.op = "two" /\ last.impl = "ciphertext") =>
         homomorphic_encrypt_two(public_key, last.args[2], last.args[1]) = last.res
    /\ (last.op = "multiple" /\ last.impl = "ciphertext") =>
         \A o \in Orders(last.args) :
            /\ homomorphic_encrypt_multiple(public_key, o) = last.res
            /\ Len(o) >= 2 => \A r \in Groupings(public_key, o) : r = last.res

\* A list of three different ciphertexts, one of them above n, was combined.
C20_Witness ==
    /\ last.op = "multiple" /\ last.impl = "ciphertext"
    /\ last.args = <<2, public_key.n - 1, public_key.n + 1>>
    /\ last.res = Ok((2 * (public_key.n - 1) * (public_key.n + 1)) % public_key.n)

----------------------------------------------------------------------------
(* Properties of sequences of operations and of the message space.         *)

\* The key pair is valid: p does not divide g and g^(p-1) mod p^2 is not 1
\* (p and q are primes by construction).
ValidKeyPair ==
    /\ pc = "ready"
    /\ public_key.g % private_key.p # 0
    /\ GeneratorCondition

\* C21: with a valid key pair, every ciphertext obtained by a sequence of
\* homomorphic_encrypt_two / homomorphic_encrypt_multiple steps on fresh
\* encryptions of plaintexts of [0, p) and on earlier results decrypts to
\* the sum modulo p of the plaintexts that went into it, and no step returns
\* CipherTooLarge.
C21_Closure ==
    ValidKeyPair =>
        /\ (last.op = "decrypt") => last.res = Ok(last.plain[1] % private_key.p)
        /\ (last.op \in {"two", "multiple"}) => last.res.tag = "Ok"

\* The result of a step on the result of an earlier step was decrypted, and
\* the sum of the plaintexts had to be reduced modulo p.
C21_Witness ==
    /\ ValidKeyPair
    /\ Len(ciphers) = 4
    /\ ciphers[3].src = "two" /\ ciphers[4].src = "multiple"
    /\ ciphers[4].c # ciphers[3].c
    /\ last.op = "decrypt" /\ last.via = "multiple"
    /\ last.args = <<ciphers[4].c>>
    /\ last.plain[1] >= private_key.p
    /\ last.res = Ok(last.plain[1] % private_key.p)
    /\ last.res.value # 0

\* C22: with a valid key pair, the encryption of a message m with
\* p <= m < n decrypts to m mod p, without an error; and every value that
\* decrypt returns is in [0, p).
C22_SilentReduction ==
    /\ (last.op = "decrypt" /\ last.via = "encrypt" /\ ValidKeyPair
          /\ private_key.p <= last.plain[1] /\ last.plain[1] < public_key.n)
         => last.res = Ok(last.plain[1] % private_key.p)
    /\ (last.op = "decrypt" /\ last.res.tag = "Ok")
         => (0 <= last.res.value /\ last.res.value < private_key.p)

\* A message above p, not a multiple of p, was encrypted under a valid key
\* and decrypted to its remainder.
C22_Witness ==
    /\ last.op = "decrypt" /\ last.via = "encrypt" /\ ValidKeyPair
    /\ private_key.p = 5
    /\ last.plain[1] = public_key.n - 1
    /\ last.res = Ok(4)

====
